---- MODULE Spec2Model ----
(***************************************************************************)
(* Lumeo photo organizer backend: the Flask handlers of backend/app.py     *)
(* (upload, process, rename, reset) over the tables of backend/models.py,  *)
(* and the clustering / representative selection of                        *)
(* backend/services/face_service.py.                                       *)
(*                                                                         *)
(* Embedding coordinates, distances and eps are in tenths (eps 0.6 is 6);  *)
(* quality scores are in tenths (0.5 is 5).  Distances are compared        *)
(* squared, which is exact on integers.                                    *)
(***************************************************************************)
EXTENDS Integers, Sequences, FiniteSets, TLC

VARIABLES photos, clusters, faceEmbeddings, photoClusters, thumbs,
          run, resp, cf, sel

vars == <<photos, clusters, faceEmbeddings, photoClusters, thumbs,
          run, resp, cf, sel>>

dbvars == <<photos, clusters, faceEmbeddings, photoClusters, thumbs>>

(***************************************************************************)
(* Bounds of the model                                                     *)
(***************************************************************************)
MaxPhotos == 2

MaxFacesPerPhoto == 2

MaxBatchLen == 3

MaxCoord == 1

MaxEps == 3

MaxMinSamples == 4

MaxDup == 2

MaxSelLen == 3

MaxImageSteps == 4

PixelStep == 20

(***************************************************************************)
(* Program constants                                                       *)
(***************************************************************************)
Eps == 6

Padding == 40

MinSamples == 1

NOISE == -1

(***************************************************************************)
(* Generic helpers                                                         *)
(***************************************************************************)
SeqsUpTo(S, n) == UNION { [1..k -> S] : k \in 0..n }

Range(s) == { s[i] : i \in DOMAIN s }

Min(a, b) == IF a <= b THEN a ELSE b

\* np.linalg.norm / metric='euclidean', squared
RECURSIVE SqDistFrom(_, _, _)
SqDistFrom(a, b, i) ==
    IF i > Len(a) THEN 0
    ELSE (a[i] - b[i]) * (a[i] - b[i]) + SqDistFrom(a, b, i + 1)

SqDist(a, b) == SqDistFrom(a, b, 1)

WithinEps(a, b, eps) == SqDist(a, b) <= eps * eps

(***************************************************************************)
(* FaceService.cluster_faces: DBSCAN(eps, min_samples).fit_predict         *)
(***************************************************************************)
\* neighbourhood of point i: the indices within eps (i included), ascending
RECURSIVE NeighboursFrom(_, _, _, _)
NeighboursFrom(enc, eps, i, j) ==
    IF j > Len(enc) THEN << >>
    ELSE (IF WithinEps(enc[i], enc[j], eps) THEN <<j>> ELSE << >>)
         \o NeighboursFrom(enc, eps, i, j + 1)

Neighbours(enc, eps, i) == NeighboursFrom(enc, eps, i, 1)

IsCore(enc, eps, min_samples, i) == Len(Neighbours(enc, eps, i)) >= min_samples

\* the unlabelled members of a neighbourhood, in neighbourhood order
Unlabelled(labels, nb) == SelectSeq(nb, LAMBDA v : labels[v] = NOISE)

\* depth-first expansion of one cluster from a stack of candidate points
RECURSIVE Expand(_, _, _, _, _, _)
Expand(enc, eps, min_samples, labels, stack, label_num) ==
    IF stack = << >> THEN labels
    ELSE LET i    == stack[Len(stack)]
             rest == SubSeq(stack, 1, Len(stack) - 1)
         IN  IF labels[i] # NOISE
             THEN Expand(enc, eps, min_samples, labels, rest, label_num)
             ELSE LET labelled == [labels EXCEPT ![i] = label_num]
                      pushed   == IF IsCore(enc, eps, min_samples, i)
                                  THEN Unlabelled(labelled, Neighbours(enc, eps, i))
                                  ELSE << >>
                  IN  Expand(enc, eps, min_samples, labelled, rest \o pushed, label_num)

\* scan of the points in index order; every unlabelled core point seeds a cluster
RECURSIVE Scan(_, _, _, _, _, _)
Scan(enc, eps, min_samples, labels, i, label_num) ==
    IF i > Len(enc) THEN labels
    ELSE IF labels[i] # NOISE \/ ~IsCore(enc, eps, min_samples, i)
         THEN Scan(enc, eps, min_samples, labels, i + 1, label_num)
         ELSE Scan(enc, eps, min_samples,
                   Expand(enc, eps, min_samples, labels, <<i>>, label_num),
                   i + 1, label_num + 1)

\* a faulty variant of DBSCAN: a seed labels its neighbourhood but does not expand it
DBSCANNoExpand(enc, eps, min_samples) ==
    LET n == Len(enc)
        seedOf(i) == CHOOSE s \in 1..n :
                        /\ WithinEps(enc[s], enc[i], eps)
                        /\ \A t \in 1..n : WithinEps(enc[t], enc[i], eps) => s <= t
    IN  [i \in 1..n |-> seedOf(i) - 1]

DBSCAN(enc, eps, min_samples) ==
    Scan(enc, eps, min_samples, [i \in 1..Len(enc) |-> NOISE], 1, 0)

cluster_faces(encodings, min_samples, eps) ==
    IF Len(encodings) = 0 THEN << >>
    ELSE DBSCAN(encodings, eps, min_samples)

(***************************************************************************)
(* FaceService.select_best_face and the max() of process_photos            *)
(***************************************************************************)
\* a faulty variant of max(): a later element of equal key replaces the current best
RECURSIVE PyMaxLastFrom(_, _, _)
PyMaxLastFrom(s, best, i) ==
    IF i > Len(s) THEN best
    ELSE PyMaxLastFrom(s, IF s[i].quality_score >= best.quality_score
                          THEN s[i] ELSE best, i + 1)

PyMaxLast(s) == PyMaxLastFrom(s, s[1], 2)

\* Python max(iterable, key=quality_score): the first maximal element
RECURSIVE PyMaxFrom(_, _, _)
PyMaxFrom(s, best, i) ==
    IF i > Len(s) THEN best
    ELSE PyMaxFrom(s, IF s[i].quality_score > best.quality_score
                      THEN s[i] ELSE best, i + 1)

PyMax(s) == PyMaxFrom(s, s[1], 2)

None == [none |-> TRUE]

select_best_face(faces_data) ==
    IF Len(faces_data) = 0 THEN None ELSE PyMax(faces_data)

(***************************************************************************)
(* Inputs                                                                  *)
(***************************************************************************)
\* the faces the vision pipeline detects: encodings in 3-4-5 steps of 0.5, so
\* that neighbours are within eps and the two ends are not, with their qualities
FaceVals ==
    { [encoding |-> <<0, 0>>, quality_score |-> 8],
      [encoding |-> <<3, 4>>, quality_score |-> 3],
      [encoding |-> <<6, 8>>, quality_score |-> 8] }

\* the faces of an uploaded file, in detection order
PhotoContents == SeqsUpTo(FaceVals, MaxFacesPerPhoto)

\* request slots of process_photos
Workers == { 1, 2 }

Perms(S) == { s \in [1..Cardinality(S) -> S] : Range(s) = S }

(***************************************************************************)
(* Identifiers and rows                                                    *)
(***************************************************************************)
\* f"cluster_{label}"
ClusterId(label) == <<"cluster_", label>>

\* f"Person {cluster_id.split('_')[1]}"
DefaultName(cluster_id) == <<"Person ", cluster_id[2]>>

\* f"{cluster_id}_thumb.jpg"
ThumbName(cluster_id) == <<cluster_id, "_thumb.jpg">>

IdleRun == [pc |-> "idle", photos |-> << >>, idx |-> 0,
            all_faces_data |-> << >>, clip_set |-> {}, processed_count |-> 0]

NoResp == [handler |-> "none", status |-> 0]

\* no call of the pure functions is in progress
NoCall == [called |-> FALSE]

(***************************************************************************)
(* Initial state: empty tables, empty folders, no request in progress      *)
(***************************************************************************)
InitDb ==
    /\ photos = << >>
    /\ clusters = << >>
    /\ faceEmbeddings = {}
    /\ photoClusters = {}
    /\ thumbs = << >>

InitApp ==
    /\ InitDb
    /\ run = [w \in Workers |-> IdleRun]
    /\ resp = NoResp

Init ==
    /\ InitApp
    /\ cf = NoCall
    /\ sel = NoCall

AllIdle == \A w \in Workers : run[w].pc = "idle"

(***************************************************************************)
(* upload_photos                                                           *)
(***************************************************************************)
UploadPhotos ==
    /\ AllIdle
    /\ \E files \in SeqsUpTo(PhotoContents, 1) :
         IF files = << >>
         THEN /\ resp' = [handler |-> "upload", status |-> 400]
              /\ UNCHANGED photos
         ELSE /\ Len(photos) + Len(files) <= MaxPhotos
              /\ photos' = photos \o [i \in 1..Len(files) |->
                                [clip_embedding |-> FALSE, faces |-> files[i]]]
              /\ resp' = [handler |-> "upload", status |-> 200,
                          photos_count |-> Len(files)]
    /\ UNCHANGED <<clusters, faceEmbeddings, photoClusters, thumbs, run, cf, sel>>

(***************************************************************************)
(* process_photos, step 1: the vision pipeline over the unprocessed photos *)
(***************************************************************************)
Unprocessed == { p \in DOMAIN photos : ~photos[p].clip_embedding }

\* the run is taken with the vision services imported and ready (the two
\* early returns before the query answer 500 and touch nothing); the query has
\* no ORDER BY, so the unprocessed photos come in any order
SelectUnprocessed(w) ==
    /\ run[w].pc = "idle"
    /\ IF Unprocessed = {}
       THEN /\ resp' = [handler |-> "process", status |-> 200,
                        message |-> "No unprocessed photos found"]
            /\ UNCHANGED run
       ELSE /\ \E order \in Perms(Unprocessed) :
                 run' = [run EXCEPT ![w] =
                           [IdleRun EXCEPT !.pc = "analyze", !.photos = order, !.idx = 1]]
            /\ UNCHANGED resp
    /\ UNCHANGED <<dbvars, cf, sel>>

StartProcess(w) == AllIdle /\ SelectUnprocessed(w)

\* face_data.get('quality_score', 0.5), in tenths
DefaultQuality == 5

\* the entries appended to all_faces_data for one photo
CollectedFaces(photo_id) ==
    [i \in 1..Len(photos[photo_id].faces) |->
        [photo_id      |-> photo_id,
         encoding      |-> photos[photo_id].faces[i].encoding,
         location      |-> i,
         quality_score |-> IF "quality_score" \in DOMAIN photos[photo_id].faces[i]
                           THEN photos[photo_id].faces[i].quality_score
                           ELSE DefaultQuality]]

VisionOutcomes == { "file_missing", "pipeline_failed", "ok", "save_error" }

AnalyzePhoto(w) ==
    /\ run[w].pc = "analyze"
    /\ run[w].idx <= Len(run[w].photos)
    /\ LET photo_id == run[w].photos[run[w].idx]
       IN  \E outcome \in VisionOutcomes, clip \in BOOLEAN :
             LET marked == IF clip THEN run[w].clip_set \cup {photo_id}
                           ELSE run[w].clip_set
             IN  run' = [run EXCEPT ![w] =
                   CASE outcome \in {"file_missing", "pipeline_failed"} ->
                          [@ EXCEPT !.idx = @ + 1]
                     [] outcome = "save_error" ->
                          [@ EXCEPT !.idx = @ + 1, !.clip_set = marked]
                     [] outcome = "ok" ->
                          [@ EXCEPT !.idx = @ + 1, !.clip_set = marked,
                                    !.all_faces_data = @ \o CollectedFaces(photo_id),
                                    !.processed_count = @ + 1]]
    /\ UNCHANGED <<dbvars, resp, cf, sel>>

\* faulty variant: the commit and the clustering do not wait for the last photo
CommitAnalysisEarly(w) ==
    /\ run[w].pc = "analyze"
    /\ run[w].idx > 1
    /\ photos' = [p \in DOMAIN photos |->
                    IF p \in run[w].clip_set
                    THEN [photos[p] EXCEPT !.clip_embedding = TRUE]
                    ELSE photos[p]]
    /\ IF Len(run[w].all_faces_data) = 0
       THEN /\ run' = [run EXCEPT ![w] = IdleRun]
            /\ resp' = [handler |-> "process", status |-> 200,
                        processed_photos |-> run[w].processed_count,
                        total_faces |-> 0, total_clusters |-> 0]
       ELSE /\ run' = [run EXCEPT ![w].pc = "cluster"]
            /\ UNCHANGED resp
    /\ UNCHANGED <<clusters, faceEmbeddings, photoClusters, thumbs, cf, sel>>

\* faulty variant: no early return, a batch without faces goes on to clustering
CommitAnalysisNoEarlyReturn(w) ==
    /\ run[w].pc = "analyze"
    /\ run[w].idx > Len(run[w].photos)
    /\ photos' = [p \in DOMAIN photos |->
                    IF p \in run[w].clip_set
                    THEN [photos[p] EXCEPT !.clip_embedding = TRUE]
                    ELSE photos[p]]
    /\ run' = [run EXCEPT ![w].pc = "cluster"]
    /\ UNCHANGED <<clusters, faceEmbeddings, photoClusters, thumbs, resp, cf, sel>>

\* session.commit() of the photo updates, then the no-face early return
CommitAnalysis(w) ==
    /\ run[w].pc = "analyze"
    /\ run[w].idx > Len(run[w].photos)
    /\ photos' = [p \in DOMAIN photos |->
                    IF p \in run[w].clip_set
                    THEN [photos[p] EXCEPT !.clip_embedding = TRUE]
                    ELSE photos[p]]
    /\ IF Len(run[w].all_faces_data) = 0
       THEN /\ run' = [run EXCEPT ![w] = IdleRun]
            /\ resp' = [handler |-> "process", status |-> 200,
                        processed_photos |-> run[w].processed_count,
                        total_faces |-> 0, total_clusters |-> 0]
       ELSE /\ run' = [run EXCEPT ![w].pc = "cluster"]
            /\ UNCHANGED resp
    /\ UNCHANGED <<clusters, faceEmbeddings, photoClusters, thumbs, cf, sel>>

(***************************************************************************)
(* process_photos, step 2: clustering and write-back                       *)
(***************************************************************************)
EncodingsOf(batch) == [i \in 1..Len(batch) |-> batch[i].encoding]

\* labels of the batch: face_service.cluster_faces(encodings, ..., min_samples=1, eps=0.6)
BatchLabels(batch) == cluster_faces(EncodingsOf(batch), MinSamples, Eps)

\* faulty variant: the noise label is kept as a cluster of its own
RECURSIVE ClusterOrderFromKeepNoise(_, _, _)
ClusterOrderFromKeepNoise(labels, i, seen) ==
    IF i > Len(labels) THEN << >>
    ELSE IF labels[i] \in seen
         THEN ClusterOrderFromKeepNoise(labels, i + 1, seen)
         ELSE <<labels[i]>>
              \o ClusterOrderFromKeepNoise(labels, i + 1, seen \cup {labels[i]})

\* keys of the clusters dict in insertion order: labels by first appearance, noise skipped
RECURSIVE ClusterOrderFrom(_, _, _)
ClusterOrderFrom(labels, i, seen) ==
    IF i > Len(labels) THEN << >>
    ELSE IF labels[i] = NOISE \/ labels[i] \in seen
         THEN ClusterOrderFrom(labels, i + 1, seen)
         ELSE <<labels[i]>> \o ClusterOrderFrom(labels, i + 1, seen \cup {labels[i]})

ClusterOrder(labels) == ClusterOrderFrom(labels, 1, {})

\* clusters[cluster_id]['faces']: the faces of one label, in batch order
RECURSIVE FacesOfFrom(_, _, _, _)
FacesOfFrom(batch, labels, label, i) ==
    IF i > Len(batch) THEN << >>
    ELSE (IF labels[i] = label THEN <<batch[i]>> ELSE << >>)
         \o FacesOfFrom(batch, labels, label, i + 1)

FacesOf(batch, labels, label) == FacesOfFrom(batch, labels, label, 1)

\* the faces in the order their rows are added: cluster by cluster
RECURSIVE RowOrderFrom(_, _, _, _)
RowOrderFrom(batch, labels, order, k) ==
    IF k > Len(order) THEN << >>
    ELSE [i \in 1..Len(FacesOf(batch, labels, order[k])) |->
            [face  |-> FacesOf(batch, labels, order[k])[i],
             label |-> order[k]]]
         \o RowOrderFrom(batch, labels, order, k + 1)

RowOrder(batch, labels) == RowOrderFrom(batch, labels, ClusterOrder(labels), 1)

\* the autoincrement primary key: unique among the rows of the table
LastEmbeddingId(table) ==
    IF table = {} THEN 0
    ELSE CHOOSE m \in { r.embedding_id : r \in table } :
            \A r \in table : r.embedding_id <= m

\* a faulty variant of the key assignment: every row of a flush gets the same key
EmbeddingIdAtSame(last, k) == last + 1

EmbeddingIdAt(last, k) == last + k

\* FaceEmbedding(photo_id, cluster_id, embedding, face_location, quality_score)
FaceEmbeddingRow(id, face, label) ==
    [embedding_id  |-> id,
     photo_id      |-> face.photo_id,
     cluster_id    |-> ClusterId(label),
     embedding     |-> face.encoding,
     face_location |-> face.location,
     quality_score |-> face.quality_score]

\* a faulty variant of the face write-back: a cluster's previous members are replaced
SaveFaceEmbeddingsReplace(table, batch, labels) ==
    LET rows == RowOrder(batch, labels)
        last == LastEmbeddingId(table)
        touched == { ClusterId(l) : l \in Range(ClusterOrder(labels)) }
    IN  { r \in table : r.cluster_id \notin touched } \cup
        { FaceEmbeddingRow(EmbeddingIdAt(last, k), rows[k].face, rows[k].label) :
            k \in 1..Len(rows) }

\* session.add(face_embedding) for every face of every cluster
SaveFaceEmbeddings(table, batch, labels) ==
    LET rows == RowOrder(batch, labels)
        last == LastEmbeddingId(table)
    IN  table \cup
        { FaceEmbeddingRow(EmbeddingIdAt(last, k), rows[k].face, rows[k].label) :
            k \in 1..Len(rows) }

\* the PhotoCluster rows added for one cluster, one per face
LinkRows(batch, labels, label) ==
    [i \in 1..Len(FacesOf(batch, labels, label)) |->
        <<FacesOf(batch, labels, label)[i].photo_id, ClusterId(label)>>]

\* a faulty variant of the link write-back: only the thumbnail face's photo is linked
SavePhotoClustersBestOnly(links, batch, labels) ==
    links \cup { <<PyMax(FacesOf(batch, labels, l)).photo_id, ClusterId(l)>> :
                    l \in Range(ClusterOrder(labels)) }

\* session.add(photo_cluster) for every face of every cluster
SavePhotoClusters(links, batch, labels) ==
    links \cup UNION { Range(LinkRows(batch, labels, l)) :
                        l \in Range(ClusterOrder(labels)) }

\* the primary key (photo_id, cluster_id) of photo_clusters rejects the flush of
\* a cluster whose links repeat a key, among themselves or against the table
LinkConflict(links, batch, labels, label) ==
    LET new == LinkRows(batch, labels, label)
    IN  \/ \E i \in DOMAIN new : new[i] \in links
        \/ \E i, j \in DOMAIN new : i # j /\ new[i] = new[j]

\* position in the cluster loop of the first cluster whose flush fails, 0 if none
FirstConflict(links, batch, labels) ==
    LET order == ClusterOrder(labels)
        bad   == { k \in DOMAIN order : LinkConflict(links, batch, labels, order[k]) }
    IN  IF bad = {} THEN 0
        ELSE CHOOSE k \in bad : \A j \in bad : k <= j

\* Faulty variant: updating an existing cluster row also resets its name.
SaveClustersResetName(table, batch, labels) ==
    LET touched == { ClusterId(l) : l \in Range(ClusterOrder(labels)) }
    IN  [cid \in DOMAIN table \cup touched |->
            IF cid \in touched
            THEN [name       |-> DefaultName(cid),
                  face_count |-> Len(FacesOf(batch, labels, cid[2])),
                  thumbnail  |-> ThumbName(cid)]
            ELSE table[cid]]

\* Cluster rows after the loop: created with the batch's count, or overwritten
SaveClusters(table, batch, labels) ==
    LET touched == { ClusterId(l) : l \in Range(ClusterOrder(labels)) }
    IN  [cid \in DOMAIN table \cup touched |->
            IF cid \in touched
            THEN IF cid \in DOMAIN table
                 THEN [table[cid] EXCEPT
                         !.face_count = Len(FacesOf(batch, labels, cid[2])),
                         !.thumbnail  = ThumbName(cid)]
                 ELSE [name       |-> DefaultName(cid),
                       face_count |-> Len(FacesOf(batch, labels, cid[2])),
                       thumbnail  |-> ThumbName(cid)]
            ELSE table[cid]]

\* the face a thumbnail file was cropped from
ThumbSource(face) ==
    [photo_id |-> face.photo_id, face_location |-> face.location,
     quality_score |-> face.quality_score]

\* extract_face_thumbnail for the first n clusters of the loop; the files are
\* written as the loop runs and stay written when the transaction fails
WriteThumbs(files, batch, labels, n) ==
    LET order   == ClusterOrder(labels)
        written == { ThumbName(ClusterId(order[k])) : k \in 1..n }
        labelOf(name) == name[1][2]
    IN  [name \in DOMAIN files \cup written |->
            IF name \in written
            THEN ThumbSource(PyMax(FacesOf(batch, labels, labelOf(name))))
            ELSE files[name]]

\* the grouping of the batch by label and the cluster loop, for the labels
\* cluster_faces returned
WriteBack(w, labels) ==
    /\ run[w].pc = "cluster"
    /\ LET batch  == run[w].all_faces_data
           order  == ClusterOrder(labels)
           failAt == FirstConflict(photoClusters, batch, labels)
       IN  IF failAt = 0
           THEN /\ clusters' = SaveClusters(clusters, batch, labels)
                /\ faceEmbeddings' = SaveFaceEmbeddings(faceEmbeddings, batch, labels)
                /\ photoClusters' = SavePhotoClusters(photoClusters, batch, labels)
                /\ thumbs' = WriteThumbs(thumbs, batch, labels, Len(order))
                /\ resp' = [handler |-> "process", status |-> 200,
                            processed_photos |-> run[w].processed_count,
                            total_faces |-> Len(batch),
                            total_clusters |-> Len(order)]
           ELSE \* the failed flush surfaces at the next cluster's query, after its
                \* thumbnail was written, or at the final commit
                /\ thumbs' = WriteThumbs(thumbs, batch, labels,
                                         Min(failAt + 1, Len(order)))
                /\ resp' = [handler |-> "process", status |-> 500]
                /\ UNCHANGED <<clusters, faceEmbeddings, photoClusters>>
    /\ run' = [run EXCEPT ![w] = IdleRun]
    /\ UNCHANGED <<photos, cf, sel>>

\* np.array(encodings) of encodings of different lengths is no 2-D array: it
\* raises, or DBSCAN's input validation does
ClusterFacesRaises(encodings) ==
    \E i, j \in DOMAIN encodings : Len(encodings[i]) # Len(encodings[j])

\* cluster_faces is called outside any inner try: when it raises, the outer
\* handler answers 500 and the second transaction has not started
ClusterAndWriteBack(w) ==
    IF ClusterFacesRaises(EncodingsOf(run[w].all_faces_data))
    THEN /\ run[w].pc = "cluster"
         /\ resp' = [handler |-> "process", status |-> 500]
         /\ run' = [run EXCEPT ![w] = IdleRun]
         /\ UNCHANGED <<dbvars, cf, sel>>
    ELSE WriteBack(w, BatchLabels(run[w].all_faces_data))

(***************************************************************************)
(* rename_cluster                                                          *)
(***************************************************************************)
UserNames == { <<"Alice">> }

UnknownClusterId == <<"cluster_", 99>>

RenameCluster ==
    /\ AllIdle
    /\ \E cluster_id \in DOMAIN clusters \cup {UnknownClusterId}, new_name \in UserNames :
         IF cluster_id \in DOMAIN clusters
         THEN /\ clusters' = [clusters EXCEPT ![cluster_id].name = new_name]
              /\ resp' = [handler |-> "rename", status |-> 200]
         ELSE /\ resp' = [handler |-> "rename", status |-> 404]
              /\ UNCHANGED clusters
    /\ UNCHANGED <<photos, faceEmbeddings, photoClusters, thumbs, run, cf, sel>>

(***************************************************************************)
(* reset_database                                                          *)
(***************************************************************************)
ResetDatabase ==
    /\ AllIdle
    /\ photos' = << >>
    /\ clusters' = << >>
    /\ faceEmbeddings' = {}
    /\ photoClusters' = {}
    /\ thumbs' = << >>
    /\ resp' = [handler |-> "reset", status |-> 200]
    /\ UNCHANGED <<run, cf, sel>>

(***************************************************************************)
(* The application: requests are served one at a time by worker 1          *)
(***************************************************************************)
ProcessPhotos(w) ==
    \/ StartProcess(w)
    \/ AnalyzePhoto(w)
    \/ CommitAnalysis(w)
    \/ ClusterAndWriteBack(w)

Next ==
    \/ UploadPhotos
    \/ ProcessPhotos(1)
    \/ RenameCluster
    \/ ResetDatabase

Spec == Init /\ [][Next]_vars

(***************************************************************************)
(* Deleting one Cluster row under the declared schema: the relationships   *)
(* Cluster.face_embeddings and Cluster.photo_clusters cascade "all,        *)
(* delete-orphan" and both foreign keys are ON DELETE CASCADE, so the rows *)
(* that reference the Cluster are deleted with it.  app.py has no handler  *)
(* that deletes one Cluster; the action is the delete the schema defines.  *)
(***************************************************************************)
DeleteCluster ==
    /\ AllIdle
    /\ \E cluster_id \in DOMAIN clusters :
         /\ clusters' = [c \in DOMAIN clusters \ {cluster_id} |-> clusters[c]]
         /\ faceEmbeddings' = { r \in faceEmbeddings : r.cluster_id # cluster_id }
         /\ photoClusters' = { k \in photoClusters : k[2] # cluster_id }
    /\ UNCHANGED <<photos, thumbs, run, resp, cf, sel>>

(***************************************************************************)
(* Two /api/process requests served at the same time: the handler takes no *)
(* lock, so the steps of the two runs interleave; each run has its own     *)
(* session, and a write-back is one transaction                            *)
(***************************************************************************)
\* both requests are received before either has been answered
FirstRequest(w) == resp = NoResp /\ SelectUnprocessed(w)

ConcurrentProcess(w) ==
    \/ FirstRequest(w)
    \/ AnalyzePhoto(w)
    \/ CommitAnalysis(w)
    \/ ClusterAndWriteBack(w)

\* the library holds uploaded photos, none processed yet, and no Person
InitConcurrent ==
    /\ photos \in { [p \in DOMAIN files |->
                       [clip_embedding |-> FALSE, faces |-> files[p]]] :
                    files \in SeqsUpTo(PhotoContents, MaxPhotos) }
    /\ clusters = << >>
    /\ faceEmbeddings = {}
    /\ photoClusters = {}
    /\ thumbs = << >>
    /\ run = [w \in Workers |-> IdleRun]
    /\ resp = NoResp
    /\ cf = NoCall
    /\ sel = NoCall

NextConcurrent == \E w \in Workers : ConcurrentProcess(w)

SpecConcurrent == InitConcurrent /\ [][NextConcurrent]_vars

(***************************************************************************)
(* One processing run over photos in which the pipeline result of a face   *)
(* may be malformed: an encoding of another length, or no quality_score    *)
(***************************************************************************)
MalformedFaceVals ==
    { [encoding |-> <<0>>, quality_score |-> 8],
      [encoding |-> <<0, 0>>] }

Malformed(face) ==
    \/ "quality_score" \notin DOMAIN face
    \/ \E v \in FaceVals : Len(face.encoding) # Len(v.encoding)

InitMalformed ==
    /\ photos \in { [p \in DOMAIN files |->
                       [clip_embedding |-> FALSE, faces |-> files[p]]] :
                    files \in SeqsUpTo(SeqsUpTo(FaceVals \cup MalformedFaceVals,
                                                MaxFacesPerPhoto), MaxPhotos) }
    /\ clusters = << >>
    /\ faceEmbeddings = {}
    /\ photoClusters = {}
    /\ thumbs = << >>
    /\ run = [w \in Workers |-> IdleRun]
    /\ resp = NoResp
    /\ cf = NoCall
    /\ sel = NoCall

NextMalformed ==
    \/ FirstRequest(1)
    \/ AnalyzePhoto(1)
    \/ CommitAnalysis(1)
    \/ ClusterAndWriteBack(1)

SpecMalformed == InitMalformed /\ [][NextMalformed]_vars

(***************************************************************************)
(* cluster_faces as a function: one call on a bounded batch                *)
(***************************************************************************)
Points == (0..MaxCoord) \X (0..MaxCoord)

ClusterInputs ==
    [called : {FALSE}, enc : SeqsUpTo(Points, MaxBatchLen),
     eps : 1..MaxEps, min_samples : 1..MaxMinSamples, labels : {<< >>}]

InitCluster ==
    /\ InitApp
    /\ sel = NoCall
    /\ cf \in ClusterInputs

CallClusterFaces ==
    /\ ~cf.called
    /\ "enc" \in DOMAIN cf
    /\ cf' = [cf EXCEPT !.called = TRUE,
                        !.labels = cluster_faces(cf.enc, cf.min_samples, cf.eps)]
    /\ UNCHANGED <<dbvars, run, resp, sel>>

SpecCluster == InitCluster /\ [][CallClusterFaces]_vars

(***************************************************************************)
(* cluster_faces called twice on one batch, with two thresholds            *)
(***************************************************************************)
\* faces on a line, at positions that put some pairs within 2 and others
\* within 3 of each other; the two end positions hold up to MaxDup identical
\* faces, the inner positions one fewer
LineCoords == <<0, 3, 6, 8, 10>>

LineCounts ==
    { count \in [DOMAIN LineCoords -> 0..MaxDup] :
        \A k \in DOMAIN LineCoords :
          (k # 1 /\ k # Len(LineCoords)) => count[k] < MaxDup }

Repeat(x, n) == [k \in 1..n |-> <<x, 0>>]

RECURSIVE LineBatchFrom(_, _)
LineBatchFrom(count, k) ==
    IF k > Len(LineCoords) THEN << >>
    ELSE Repeat(LineCoords[k], count[k]) \o LineBatchFrom(count, k + 1)

Reverse(s) == [k \in 1..Len(s) |-> s[Len(s) + 1 - k]]

LineBatches ==
    LET asc == { LineBatchFrom(count, 1) : count \in LineCounts }
    IN  asc \cup { Reverse(b) : b \in asc }

ThresholdInputs ==
    { in \in [called : {FALSE}, enc : LineBatches, eps : 1..MaxEps,
              eps2 : 1..MaxEps, min_samples : 1..MaxMinSamples,
              labels : {<< >>}, labels2 : {<< >>}] : in.eps <= in.eps2 }

InitThreshold ==
    /\ InitApp
    /\ sel = NoCall
    /\ cf \in ThresholdInputs

CallClusterFacesTwice ==
    /\ ~cf.called
    /\ "eps2" \in DOMAIN cf
    /\ cf' = [cf EXCEPT !.called = TRUE,
                        !.labels  = cluster_faces(cf.enc, cf.min_samples, cf.eps),
                        !.labels2 = cluster_faces(cf.enc, cf.min_samples, cf.eps2)]
    /\ UNCHANGED <<dbvars, run, resp, sel>>

SpecThreshold == InitThreshold /\ [][CallClusterFacesTwice]_vars

(***************************************************************************)
(* The grouping and write-back of process_photos for every labelling that  *)
(* cluster_faces can return: one run that has analysed and committed its   *)
(* photos, clustered with a min_samples drawn from 1..MaxMinSamples        *)
(***************************************************************************)
RECURSIVE AllFacesFrom(_)
AllFacesFrom(photo_id) ==
    IF photo_id > Len(photos) THEN << >>
    ELSE CollectedFaces(photo_id) \o AllFacesFrom(photo_id + 1)

InitGrouping ==
    /\ photos \in { [p \in DOMAIN files |->
                       [clip_embedding |-> TRUE, faces |-> files[p]]] :
                    files \in SeqsUpTo(PhotoContents, MaxPhotos) }
    /\ Len(AllFacesFrom(1)) > 0
    /\ clusters = << >>
    /\ faceEmbeddings = {}
    /\ photoClusters = {}
    /\ thumbs = << >>
    /\ run = [w \in Workers |->
                IF w = 1
                THEN [pc |-> "cluster",
                      photos |-> [p \in DOMAIN photos |-> p],
                      idx |-> Len(photos) + 1,
                      all_faces_data |-> AllFacesFrom(1),
                      clip_set |-> DOMAIN photos,
                      processed_count |-> Len(photos)]
                ELSE IdleRun]
    /\ resp = NoResp
    /\ cf \in [called : {FALSE}, min_samples : 1..MaxMinSamples]
    /\ sel = NoCall

GroupingLabels(w) ==
    cluster_faces(EncodingsOf(run[w].all_faces_data), cf.min_samples, Eps)

GroupAndWriteBack(w) ==
    /\ "min_samples" \in DOMAIN cf
    /\ WriteBack(w, GroupingLabels(w))

SpecGrouping == InitGrouping /\ [][GroupAndWriteBack(1)]_vars

\* one run writes its Persons back, then Persons are deleted
NextDelete ==
    \/ GroupAndWriteBack(1)
    \/ DeleteCluster

SpecDelete == InitGrouping /\ [][NextDelete]_vars

(***************************************************************************)
(* select_best_face as a function: one call on a bounded list of faces     *)
(***************************************************************************)
SelQualities == { 3, 5, 8 }

SelFaces == [face_id : 1..MaxSelLen, quality_score : SelQualities]

\* lists of faces with distinct face ids, in any order
SelLists ==
    { s \in SeqsUpTo(SelFaces, MaxSelLen) :
        \A i, j \in DOMAIN s : i # j => s[i].face_id # s[j].face_id }

InitSelect ==
    /\ InitApp
    /\ cf = NoCall
    /\ sel \in [called : {FALSE}, faces_data : SelLists, out : {None}]

CallSelectBestFace ==
    /\ ~sel.called
    /\ "faces_data" \in DOMAIN sel
    /\ sel' = [sel EXCEPT !.called = TRUE, !.out = select_best_face(sel.faces_data)]
    /\ UNCHANGED <<dbvars, run, resp, cf>>

SpecSelect == InitSelect /\ [][CallSelectBestFace]_vars

(***************************************************************************)
(* Vocabulary of the claims                                                *)
(***************************************************************************)
\* the rows of one Person
Members(table, cluster_id) == { r \in table : r.cluster_id = cluster_id }

\* the Persons a face of the batch is already a member of: the persisted rows
\* of the same photo and face location
PriorPersons(face) ==
    { r.cluster_id : r \in { q \in faceEmbeddings :
                               /\ q.photo_id = face.photo_id
                               /\ q.face_location = face.location } }

\* the rows this step added for a face of the batch
AddedRows(face) ==
    { r \in faceEmbeddings' \ faceEmbeddings :
        r.photo_id = face.photo_id /\ r.face_location = face.location }

\* the batch positions of one cluster of the run
MembersOfLabel(labels, label) == { i \in DOMAIN labels : labels[i] = label }

\* the step in which worker w clusters its batch and writes it back
WriteBackStep(w) == run[w].pc = "cluster" /\ run'[w].pc = "idle"

\* a step of a processing run
ProcessStep == run' # run \/ (resp' # resp /\ resp'.handler = "process")

ProcessSucceeded == resp.handler = "process" /\ resp.status = 200

(***************************************************************************)
(* C1  A cluster of brand-new faces becomes a new Person                   *)
(***************************************************************************)
\* C1: in a processing run that completes, every cluster whose members are all
\* brand-new gets a Person whose id no persisted Person has, all its members
\* are assigned to it, and none of them is added to a pre-existing Person.
C1_NewClusterNewPerson ==
    [][\A w \in Workers :
        (WriteBackStep(w) /\ resp'.status = 200) =>
          LET batch  == run[w].all_faces_data
              labels == BatchLabels(batch)
          IN  \A l \in Range(ClusterOrder(labels)) :
                (\A i \in MembersOfLabel(labels, l) : PriorPersons(batch[i]) = {}) =>
                  \E cid \in DOMAIN clusters' \ DOMAIN clusters :
                    \A i \in MembersOfLabel(labels, l) :
                      /\ \E r \in AddedRows(batch[i]) : r.cluster_id = cid
                      /\ \A r \in AddedRows(batch[i]) : r.cluster_id \notin DOMAIN clusters
      ]_vars

(***************************************************************************)
(* C2  Person ids are stable across processing runs                        *)
(***************************************************************************)
\* C2: no step of a processing run removes a face from its Person or moves it
\* to another one (every persisted row stays, with the same cluster_id), and
\* every existing Person keeps its person_id.
C2_PersonIdsStable ==
    [][ProcessStep =>
          /\ \A r \in faceEmbeddings : r \in faceEmbeddings'
          /\ DOMAIN clusters \subseteq DOMAIN clusters'
      ]_vars

\* a Person that a later run has written to again: it has more rows than the
\* count its last run recorded
C2_Witness ==
    /\ AllIdle
    /\ ProcessSucceeded
    /\ \E c \in DOMAIN clusters :
         clusters[c].face_count < Cardinality(Members(faceEmbeddings, c))

(***************************************************************************)
(* C3  A cluster touching exactly one existing Person merges into it       *)
(***************************************************************************)
\* C3: when a cluster of a run holds faces of exactly one existing Person P and
\* k brand-new faces, the run assigns the k new faces to P, P's face_count
\* grows by exactly k, and no member of the cluster goes to a new Person.
C3_MergeIntoExistingPerson ==
    [][\A w \in Workers :
        WriteBackStep(w) =>
          LET batch  == run[w].all_faces_data
              labels == BatchLabels(batch)
          IN  \A l \in Range(ClusterOrder(labels)) :
                LET members == MembersOfLabel(labels, l)
                    prior   == UNION { PriorPersons(batch[i]) : i \in members }
                    new     == { i \in members : PriorPersons(batch[i]) = {} }
                IN  Cardinality(prior) = 1 =>
                      \A P \in prior :
                        /\ P \in DOMAIN clusters'
                        /\ \A i \in new : \E r \in AddedRows(batch[i]) : r.cluster_id = P
                        /\ clusters'[P].face_count
                             = clusters[P].face_count + Cardinality(new)
                        /\ \A i \in members : \A r \in AddedRows(batch[i]) :
                             r.cluster_id \in DOMAIN clusters
      ]_vars

(***************************************************************************)
(* C4  A cluster spanning two existing Persons is reported, not merged     *)
(***************************************************************************)
\* C4: when a cluster of a run holds faces of two or more existing Persons, the
\* run completes, its response lists those person ids as a merge conflict, and
\* the membership of each of those Persons is unchanged.
C4_ConflictReported ==
    [][\A w \in Workers :
        WriteBackStep(w) =>
          LET batch  == run[w].all_faces_data
              labels == BatchLabels(batch)
          IN  \A l \in Range(ClusterOrder(labels)) :
                LET prior == UNION { PriorPersons(batch[i]) :
                                       i \in MembersOfLabel(labels, l) }
                IN  Cardinality(prior) >= 2 =>
                      /\ resp'.status = 200
                      /\ "conflicts" \in DOMAIN resp'
                      /\ prior \subseteq resp'.conflicts
                      /\ \A P \in prior :
                           Members(faceEmbeddings', P) = Members(faceEmbeddings, P)
      ]_vars

C6_LinksDerived ==
    AllIdle =>
      photoClusters = { <<r.photo_id, r.cluster_id>> : r \in faceEmbeddings }

\* a completed run after which one Person is linked to two photos
C6_Witness ==
    /\ AllIdle
    /\ ProcessSucceeded
    /\ \E k1, k2 \in photoClusters : k1[1] # k2[1] /\ k1[2] = k2[2]

(***************************************************************************)
(* C7  face_count is the number of member rows                             *)
(***************************************************************************)
\* C7: after any sequence of completed processing runs, every Person's
\* face_count equals the number of FaceEmbedding rows with its cluster_id.
C7_FaceCountIsMemberCount ==
    AllIdle =>
      \A c \in DOMAIN clusters :
        clusters[c].face_count = Cardinality(Members(faceEmbeddings, c))

(***************************************************************************)
(* C8  The representative is a best-quality current member                 *)
(***************************************************************************)
\* C8: after a completed processing run, every Person's thumbnail was produced
\* from a current member of that Person whose quality_score is maximal among
\* all of its current members.
C8_RepresentativeIsBestMember ==
    (AllIdle /\ ProcessSucceeded) =>
      \A c \in DOMAIN clusters :
        /\ clusters[c].thumbnail \in DOMAIN thumbs
        /\ \E r \in Members(faceEmbeddings, c) :
             /\ r.photo_id = thumbs[clusters[c].thumbnail].photo_id
             /\ r.face_location = thumbs[clusters[c].thumbnail].face_location
             /\ \A m \in Members(faceEmbeddings, c) :
                  m.quality_score <= r.quality_score

(***************************************************************************)
(* C9  Representative selection                                            *)
(***************************************************************************)
MaxQuality(faces_data) ==
    CHOOSE q \in { faces_data[i].quality_score : i \in DOMAIN faces_data } :
        \A i \in DOMAIN faces_data : faces_data[i].quality_score <= q

BestPositions(faces_data) ==
    { i \in DOMAIN faces_data : faces_data[i].quality_score = MaxQuality(faces_data) }

Reorderings(faces_data) ==
    { [i \in DOMAIN faces_data |-> faces_data[p[i]]] : p \in Perms(DOMAIN faces_data) }

\* C9 as stated: the selected face has the highest quality_score and, among the
\* faces of that score, the earliest face_id, whatever the order of the list.
C9_EarliestFaceIdOnTies ==
    (sel.called /\ Len(sel.faces_data) > 0) =>
      /\ sel.out.quality_score = MaxQuality(sel.faces_data)
      /\ \A i \in BestPositions(sel.faces_data) :
           sel.out.face_id <= sel.faces_data[i].face_id

\* C9 amended: the selected face has the highest quality_score and, among the
\* faces of that score, is the first in the order of the list; a unique maximum
\* is selected for every ordering of the list.
C9_FirstMaximalInListOrder ==
    (sel.called /\ Len(sel.faces_data) > 0) =>
      /\ sel.out.quality_score = MaxQuality(sel.faces_data)
      /\ \E k \in BestPositions(sel.faces_data) :
           /\ sel.out = sel.faces_data[k]
           /\ \A j \in BestPositions(sel.faces_data) : k <= j
      /\ Cardinality(BestPositions(sel.faces_data)) = 1 =>
           \A perm \in Reorderings(sel.faces_data) : select_best_face(perm) = sel.out

\* a tie for the highest score, resolved for the face listed first although
\* it has the later face_id
C9_Witness ==
    /\ sel.called
    /\ Len(sel.faces_data) > 1
    /\ Cardinality(BestPositions(sel.faces_data)) > 1
    /\ \E i \in BestPositions(sel.faces_data) :
         sel.faces_data[i].face_id < sel.out.face_id

(***************************************************************************)
(* C10  With min_samples = 1 the clusters are the connected components     *)
(***************************************************************************)
\* the points joined to the set S by chains of steps of at most eps
RECURSIVE Reachable(_, _, _)
Reachable(enc, eps, S) ==
    LET T == S \cup { j \in DOMAIN enc : \E i \in S : WithinEps(enc[i], enc[j], eps) }
    IN  IF T = S THEN S ELSE Reachable(enc, eps, T)

Connected(enc, eps, i, j) == j \in Reachable(enc, eps, {i})

\* C10: with min_samples = 1, every face gets a non-negative label, and two
\* faces get the same label exactly when a chain of faces, each within eps of
\* the next, joins them.
C10_ComponentsAreClusters ==
    (cf.called /\ cf.min_samples = 1) =>
      /\ Len(cf.labels) = Len(cf.enc)
      /\ \A i \in DOMAIN cf.enc : cf.labels[i] >= 0
      /\ \A i, j \in DOMAIN cf.enc :
           (cf.labels[i] = cf.labels[j]) <=> Connected(cf.enc, cf.eps, i, j)

\* a chain A-B-C in one cluster although A and C are farther apart than eps,
\* next to nothing else
C10_Witness ==
    /\ cf.called
    /\ cf.min_samples = 1
    /\ \E a, b, c \in DOMAIN cf.enc :
         /\ WithinEps(cf.enc[a], cf.enc[b], cf.eps)
         /\ WithinEps(cf.enc[b], cf.enc[c], cf.eps)
         /\ ~WithinEps(cf.enc[a], cf.enc[c], cf.eps)
         /\ cf.labels[a] = cf.labels[c]

(***************************************************************************)
(* C11  Faces within eps of each other share a cluster                     *)
(***************************************************************************)
\* C11 as stated: for every batch, eps and min_samples >= 1, any two faces at
\* distance at most eps get the same label, and that label is not noise.
C11_WithinEpsSameCluster ==
    cf.called =>
      \A i, j \in DOMAIN cf.enc :
        (i # j /\ WithinEps(cf.enc[i], cf.enc[j], cf.eps)) =>
          /\ cf.labels[i] = cf.labels[j]
          /\ cf.labels[i] >= 0

\* C11 amended: two faces at distance at most eps that are both core points
\* (each has at least min_samples faces within eps, itself included) get the
\* same non-negative label; with min_samples <= 2 every two faces within eps
\* of each other are core points, so the statement holds for all of them.
C11_CoreFacesWithinEpsSameCluster ==
    cf.called =>
      \A i, j \in DOMAIN cf.enc :
        (i # j /\ WithinEps(cf.enc[i], cf.enc[j], cf.eps)) =>
          /\ (IsCore(cf.enc, cf.eps, cf.min_samples, i)
                /\ IsCore(cf.enc, cf.eps, cf.min_samples, j)) =>
               (cf.labels[i] = cf.labels[j] /\ cf.labels[i] >= 0)
          /\ cf.min_samples <= 2 =>
               (cf.labels[i] = cf.labels[j] /\ cf.labels[i] >= 0)

\* two different core faces within eps of each other, with min_samples = 2,
\* clustered together while a third face of the batch is elsewhere
C11_Witness ==
    /\ cf.called
    /\ cf.min_samples = 2
    /\ \E i, j, k \in DOMAIN cf.enc :
         /\ i # j
         /\ WithinEps(cf.enc[i], cf.enc[j], cf.eps)
         /\ cf.labels[i] = cf.labels[j]
         /\ cf.labels[i] >= 0
         /\ cf.labels[k] # cf.labels[i]

(***************************************************************************)
(* C12  Threshold monotonicity                                             *)
(***************************************************************************)
\* C12 as stated: for a fixed batch, order and min_samples, and eps <= eps2,
\* every cluster produced with eps is contained in a single cluster produced
\* with eps2.
C12_ThresholdMonotone ==
    cf.called =>
      \A i, j \in DOMAIN cf.enc :
        (cf.labels[i] # NOISE /\ cf.labels[i] = cf.labels[j]) =>
          (cf.labels2[i] # NOISE /\ cf.labels2[i] = cf.labels2[j])

\* C12 amended: the containment holds for min_samples <= 3, and for every
\* min_samples the core faces of a cluster produced with eps stay together in
\* one cluster produced with eps2.
C12_ThresholdMonotoneUpTo3 ==
    cf.called =>
      \A i, j \in DOMAIN cf.enc :
        (cf.labels[i] # NOISE /\ cf.labels[i] = cf.labels[j]) =>
          /\ cf.min_samples <= 3 =>
               (cf.labels2[i] # NOISE /\ cf.labels2[i] = cf.labels2[j])
          /\ (IsCore(cf.enc, cf.eps, cf.min_samples, i)
                /\ IsCore(cf.enc, cf.eps, cf.min_samples, j)) =>
               (cf.labels2[i] # NOISE /\ cf.labels2[i] = cf.labels2[j])

\* two clusters of the smaller threshold are one cluster of the larger one
C12_Witness ==
    /\ cf.called
    /\ cf.eps < cf.eps2
    /\ \E i, j \in DOMAIN cf.enc :
         /\ cf.labels[i] # NOISE
         /\ cf.labels[j] # NOISE
         /\ cf.labels[i] # cf.labels[j]
         /\ cf.labels2[i] = cf.labels2[j]
         /\ cf.labels2[i] # NOISE

(***************************************************************************)
(* C14  An empty batch is not an error                                     *)
(***************************************************************************)
\* C14: cluster_faces of an empty batch is an empty result, and a processing
\* run that collected no face ends with a success response reporting zero
\* faces and zero clusters, and creates no Person, no FaceEmbedding and no
\* PhotoCluster link.
C14_EmptyBatchSucceeds ==
    [][/\ \A eps \in 1..MaxEps, min_samples \in 1..MaxMinSamples :
            cluster_faces(<< >>, min_samples, eps) = << >>
       /\ \A w \in Workers :
            (/\ run[w].pc = "analyze"
             /\ run[w].idx > Len(run[w].photos)
             /\ Len(run[w].all_faces_data) = 0
             /\ run'[w] # run[w]) =>
              /\ run'[w].pc = "idle"
              /\ resp'.handler = "process"
              /\ resp'.status = 200
              /\ resp'.total_faces = 0
              /\ resp'.total_clusters = 0
              /\ UNCHANGED <<clusters, faceEmbeddings, photoClusters>>
      ]_vars

\* a run over a photo without faces has completed, reporting zero faces, while
\* a Person of an earlier run exists
C14_Witness ==
    /\ AllIdle
    /\ ProcessSucceeded
    /\ "total_faces" \in DOMAIN resp
    /\ resp.total_faces = 0
    /\ DOMAIN clusters # {}
    /\ \E p \in DOMAIN photos : photos[p].clip_embedding /\ Len(photos[p].faces) = 0

(***************************************************************************)
(* C15  Noise faces join no Person                                         *)
(***************************************************************************)
\* C15: a face that cluster_faces labels -1 gets no FaceEmbedding row, no
\* Person is created for the noise label, and every PhotoCluster link the run
\* adds belongs to a face of that photo with a non-noise label.
C15_NoiseJoinsNoPerson ==
    [][\A w \in Workers :
        WriteBackStep(w) =>
          LET batch  == run[w].all_faces_data
              labels == GroupingLabels(w)
          IN  /\ \A i \in DOMAIN batch :
                   labels[i] = NOISE => AddedRows(batch[i]) = {}
              /\ ClusterId(NOISE) \notin DOMAIN clusters'
              /\ \A link \in photoClusters' \ photoClusters :
                   \E i \in DOMAIN batch :
                     /\ labels[i] # NOISE
                     /\ link = <<batch[i].photo_id, ClusterId(labels[i])>>
      ]_vars

\* a run has written a Person back while a face of its batch, labelled noise,
\* has no row
C15_Witness ==
    /\ AllIdle
    /\ ProcessSucceeded
    /\ faceEmbeddings # {}
    /\ \E p \in DOMAIN photos : \E i \in DOMAIN photos[p].faces :
         \A r \in faceEmbeddings : ~(r.photo_id = p /\ r.face_location = i)

(***************************************************************************)
(* C16  Clustering waits for the analysis of every selected photo          *)
(***************************************************************************)
\* C16: whenever a run is at its clustering step, every photo it selected has
\* been through the analysis loop (analysed, or skipped as failed), and the
\* batch holds faces of selected photos only.
C16_ClusteringAfterAnalysis ==
    \A w \in Workers :
      run[w].pc = "cluster" =>
        /\ run[w].idx = Len(run[w].photos) + 1
        /\ run[w].processed_count <= Len(run[w].photos)
        /\ \A i \in DOMAIN run[w].all_faces_data :
             run[w].all_faces_data[i].photo_id \in Range(run[w].photos)

\* a run of two photos is about to cluster, one of them skipped as failed
C16_Witness ==
    \E w \in Workers :
      /\ run[w].pc = "cluster"
      /\ Len(run[w].photos) = 2
      /\ run[w].processed_count = 1

(***************************************************************************)
(* C17  No face of the run is dropped from the clustering input            *)
(***************************************************************************)
\* C17: when the analysis loop of a run is over and its photo updates are
\* committed, every photo of the run either has all of its faces in the batch
\* that goes to clustering, or is still unprocessed and so selectable by a
\* later run.
C17_NoFaceDropped ==
    [][\A w \in Workers :
        (run[w].pc = "analyze" /\ run'[w].pc # "analyze") =>
          \A p \in Range(run[w].photos) :
            \/ \A i \in DOMAIN CollectedFaces(p) :
                 CollectedFaces(p)[i] \in Range(run[w].all_faces_data)
            \/ ~photos'[p].clip_embedding
      ]_vars

(***************************************************************************)
(* C18  Reconciliation is single-writer                                    *)
(***************************************************************************)
\* C18: of two processing runs requested at the same time, the reconciliation
\* phases (from reading the unprocessed photos to writing the rows) never
\* overlap, and no face of a photo ends up with a FaceEmbedding row from each
\* of the two runs.
C18_SingleWriter ==
    /\ \A w1, w2 \in Workers :
         (run[w1].pc # "idle" /\ run[w2].pc # "idle") => w1 = w2
    /\ \A r1, r2 \in faceEmbeddings :
         (r1.photo_id = r2.photo_id /\ r1.face_location = r2.face_location) =>
           r1 = r2

(***************************************************************************)
(* C19  A failed write-back commits nothing and can be retried             *)
(***************************************************************************)
\* C19: when the write-back of a run fails, no Person, FaceEmbedding or
\* PhotoCluster change of the run is persisted, and every photo whose faces
\* were in the batch is still unprocessed, so that a later run selects it and
\* reconciles the same faces again.
C19_FailedWriteBackRetryable ==
    [][\A w \in Workers :
        (WriteBackStep(w) /\ resp'.status = 500) =>
          /\ UNCHANGED <<clusters, faceEmbeddings, photoClusters>>
          /\ \A i \in DOMAIN run[w].all_faces_data :
               ~photos'[run[w].all_faces_data[i].photo_id].clip_embedding
      ]_vars

(***************************************************************************)
(* C20  A run aborted before clustering leaves no trace                    *)
(***************************************************************************)
\* C20: every step that leaves a run short of its clustering step (still
\* analysing, or about to cluster) leaves the photos' processed status and the
\* Person, FaceEmbedding and PhotoCluster rows as they were, so that a run
\* stopped there has had no effect; and FaceEmbedding rows are written only
\* by the write-back that follows clustering.
C20_AbortBeforeClusteringNoEffect ==
    [][/\ \A w \in Workers :
            (/\ run'[w] # run[w]
             /\ run[w].pc \in {"idle", "analyze"}
             /\ run'[w].pc \in {"analyze", "cluster"}) =>
              UNCHANGED <<photos, clusters, faceEmbeddings, photoClusters>>
       /\ faceEmbeddings' # faceEmbeddings =>
            (ResetDatabase \/ \E w \in Workers : WriteBackStep(w))
      ]_vars

(***************************************************************************)
(* C21  A face is persisted exactly once                                   *)
(***************************************************************************)
\* C21: no step of a processing run changes or deletes a persisted
\* FaceEmbedding row, and after every step each face of each photo (photo_id,
\* face_location) has at most one row: a photo analysed and persisted by one
\* run is not persisted again by a later one.
C21_FacePersistedOnce ==
    [][ProcessStep =>
          /\ \A r \in faceEmbeddings : r \in faceEmbeddings'
          /\ \A r1, r2 \in faceEmbeddings' :
               (r1.photo_id = r2.photo_id /\ r1.face_location = r2.face_location)
                 => r1.embedding_id = r2.embedding_id
      ]_vars

(***************************************************************************)
(* C22  Deleting a Person detaches its faces                               *)
(***************************************************************************)
\* C22: deleting a Person removes the Person and all of its links, and leaves
\* every FaceEmbedding row (by embedding_id) and every Photo in place; the
\* rows that were its members are no longer assigned to it.
C22_DeleteDetachesFaces ==
    [][DeleteCluster =>
          /\ { r.embedding_id : r \in faceEmbeddings' }
               = { r.embedding_id : r \in faceEmbeddings }
          /\ photos' = photos
          /\ \A c \in DOMAIN clusters \ DOMAIN clusters' :
               /\ Members(faceEmbeddings', c) = {}
               /\ \A k \in photoClusters' : k[2] # c
      ]_vars

Max(a, b) == IF a >= b THEN a ELSE b

\* Faulty variant: the padded box is not clamped to the image.
CropRegionNoClamp(face_location, height, width, padding) ==
    LET top    == face_location[1]
        right  == face_location[2]
        bottom == face_location[3]
        left   == face_location[4]
    IN  << top - padding, right + padding, bottom + padding, left - padding >>

\* (top, right, bottom, left) of image[top:bottom, left:right]
CropRegion(face_location, height, width, padding) ==
    LET top    == face_location[1]
        right  == face_location[2]
        bottom == face_location[3]
        left   == face_location[4]
    IN  << Max(0, top - padding),
           Min(width, right + padding),
           Min(height, bottom + padding),
           Max(0, left - padding) >>

\* image sizes and pixel coordinates on a grid of PixelStep pixels
ImageSizes == { k * PixelStep : k \in 1..MaxImageSteps }

PixelsUpTo(size) == { k * PixelStep : k \in 0..MaxImageSteps } \cap 0..size

\* face boxes (top, right, bottom, left) lying inside a height x width image
BoxesInside(height, width) ==
    { << top, right, bottom, left >> :
        top \in PixelsUpTo(height), right \in PixelsUpTo(width),
        bottom \in PixelsUpTo(height), left \in PixelsUpTo(width) }
      \cap { b \in Seq(Int) : b[1] < b[3] /\ b[4] < b[2] }

InitThumb ==
    /\ InitDb
    /\ run = [w \in Workers |-> IdleRun]
    /\ resp = NoResp
    /\ sel = NoCall
    /\ \E height, width \in ImageSizes :
         \E face_location \in BoxesInside(height, width) :
           \E readable \in BOOLEAN :
             cf = [called |-> FALSE, face_location |-> face_location,
                   height |-> height, width |-> width, readable |-> readable]

\* one call extract_face_thumbnail(image_path, face_location, output_path)
ExtractFaceThumbnail ==
    /\ ~cf.called
    /\ cf' = [cf EXCEPT !.called = TRUE] @@
               IF cf.readable
               THEN [ok |-> TRUE,
                     crop |-> CropRegion(cf.face_location, cf.height,
                                         cf.width, Padding)]
               ELSE [ok |-> FALSE, crop |-> << >>]
    /\ UNCHANGED << dbvars, run, resp, sel >>

SpecThumb == InitThumb /\ [][ExtractFaceThumbnail]_vars

(***************************************************************************)
(* C25  The thumbnail crop is the padded box clamped to the image          *)
(***************************************************************************)
\* C25: for a face box inside the image, each side of the crop region lies
\* Padding pixels outside the box unless that would leave the image, in which
\* case it lies on the image border; the crop region contains the box and
\* stays inside the image.
C25_CropPaddedAndClamped ==
    (cf.called /\ cf.ok) =>
      LET top    == cf.face_location[1]
          right  == cf.face_location[2]
          bottom == cf.face_location[3]
          left   == cf.face_location[4]
          top2    == cf.crop[1]
          right2  == cf.crop[2]
          bottom2 == cf.crop[3]
          left2   == cf.crop[4]
      IN  /\ top2    = (IF top - Padding < 0 THEN 0 ELSE top - Padding)
          /\ left2   = (IF left - Padding < 0 THEN 0 ELSE left - Padding)
          /\ bottom2 = (IF bottom + Padding > cf.height THEN cf.height
                                                         ELSE bottom + Padding)
          /\ right2  = (IF right + Padding > cf.width THEN cf.width
                                                       ELSE right + Padding)
          /\ top2 <= top /\ left2 <= left
          /\ bottom <= bottom2 /\ right <= right2
          /\ 0 <= top2 /\ 0 <= left2
          /\ bottom2 <= cf.height /\ right2 <= cf.width

\* a crop clamped at the top and the right, and padded in full at the bottom
\* and the left
C25_Witness ==
    /\ cf.called /\ cf.ok
    /\ cf.face_location[1] - Padding < 0 /\ cf.crop[1] = 0
    /\ cf.face_location[2] + Padding > cf.width /\ cf.crop[2] = cf.width
    /\ cf.crop[3] = cf.face_location[3] + Padding
    /\ cf.crop[4] = cf.face_location[4] - Padding

(***************************************************************************)
(* C26  Renaming changes one name, and a run keeps it                      *)
(***************************************************************************)
\* C26: a rename answered with success changes the name of one existing
\* cluster and nothing else in the database; a rename of an unknown cluster_id
\* is answered with an error and changes nothing; and a step of a processing
\* run leaves the name of every existing cluster as it was.
C26_RenameChangesOnlyName ==
    [][/\ (run' = run /\ resp'.handler = "rename") =>
            /\ UNCHANGED << photos, faceEmbeddings, photoClusters, thumbs >>
            /\ DOMAIN clusters' = DOMAIN clusters
            /\ resp'.status = 200 =>
                 \E cluster_id \in DOMAIN clusters :
                   \A c \in DOMAIN clusters :
                     /\ clusters'[c].face_count = clusters[c].face_count
                     /\ clusters'[c].thumbnail = clusters[c].thumbnail
                     /\ c # cluster_id => clusters'[c] = clusters[c]
            /\ resp'.status # 200 => clusters' = clusters
       /\ ProcessStep =>
            \A c \in DOMAIN clusters :
              c \in DOMAIN clusters' /\ clusters'[c].name = clusters[c].name
      ]_vars

\* a Person the user named was then updated by a successful run
C26_Witness ==
    /\ ProcessSucceeded
    /\ "total_clusters" \in DOMAIN resp /\ resp.total_clusters >= 1
    /\ ClusterId(0) \in DOMAIN clusters
    /\ clusters[ClusterId(0)].name \in UserNames

(***************************************************************************)
(* C27  One link per photo and Person                                      *)
(***************************************************************************)
\* C27: a write-back in which two faces of one photo are assigned to the same
\* Person, or a face is assigned to a Person its photo is already linked to,
\* is answered with success and leaves that photo linked to that Person.
C27_RepeatedLinkSucceeds ==
    [][\A w \in Workers :
        WriteBackStep(w) =>
          LET batch  == run[w].all_faces_data
              labels == BatchLabels(batch)
          IN  \A i \in DOMAIN batch :
                LET link == << batch[i].photo_id, ClusterId(labels[i]) >>
                IN  (\/ link \in photoClusters
                     \/ \E j \in DOMAIN batch :
                          /\ j # i
                          /\ batch[j].photo_id = batch[i].photo_id
                          /\ labels[j] = labels[i])
                      => (resp'.status = 200 /\ link \in photoClusters')
      ]_vars

(***************************************************************************)
(* C28  A processed photo has its faces persisted                          *)
(***************************************************************************)
\* C28: whenever no run is in progress, every photo committed as processed
\* has a FaceEmbedding row for each of its detected faces.
C28_ProcessedPhotoHasItsFaces ==
    AllIdle =>
      \A p \in DOMAIN photos :
        photos[p].clip_embedding =>
          \A i \in DOMAIN photos[p].faces :
            \E r \in faceEmbeddings : r.photo_id = p /\ r.face_location = i

(***************************************************************************)
(* C29  Processing again when nothing is new                               *)
(***************************************************************************)
\* C29: when the last request was a processing run that answered success
\* having processed every uploaded photo, a further process_photos selects no
\* photo, answers "No unprocessed photos found" and leaves the database as
\* it was.
C29_IdempotentWhenNothingNew ==
    [][(/\ AllIdle
        /\ ProcessSucceeded
        /\ "processed_photos" \in DOMAIN resp
        /\ resp.processed_photos = Len(photos)
        /\ Len(photos) > 0
        /\ ProcessStep) =>
          /\ run' = run
          /\ "message" \in DOMAIN resp'
          /\ resp'.message = "No unprocessed photos found"
          /\ UNCHANGED dbvars
      ]_vars

(***************************************************************************)
(* AnalysisPipeline.process_photo                                          *)
(***************************************************************************)
\* the services called inside the try block, in order
PipelineSteps ==
    << "metadata", "faces", "emotions", "objects", "scene", "colors", "clip",
       "caption" >>

Progress(step) == [op |-> "progress", step |-> step]

Step(name) == [op |-> "step", name |-> name]

\* Faulty variant: the emotion progress is reported for every photo.
PipelineBodyAlwaysProgress(face_count) ==
    << Progress(1), Step("metadata"), Progress(2), Step("faces"), Progress(3) >>
    \o (IF face_count > 0 THEN << Step("emotions") >>
                          ELSE << [op |-> "default", name |-> "emotions"] >>)
    \o << Progress(4), Step("objects"), Progress(5), Step("scene"),
          Step("colors"), Progress(6), Step("clip"), Progress(7),
          Step("caption"), [op |-> "complete"], Progress(8) >>

\* the statements of the try block for a photo showing face_count faces: with
\* no face the emotion services are not called and a default is stored
PipelineBody(face_count) ==
    << Progress(1), Step("metadata"), Progress(2), Step("faces") >>
    \o (IF face_count > 0 THEN << Progress(3), Step("emotions") >>
                          ELSE << [op |-> "default", name |-> "emotions"] >>)
    \o << Progress(4), Step("objects"), Progress(5), Step("scene"),
          Step("colors"), Progress(6), Step("clip"), Progress(7),
          Step("caption"), [op |-> "complete"], Progress(8) >>

\* _progress calls the callback only when one was given
Invokes(o, callback) == o.op = "progress" /\ callback.given

\* the statement raises: the service named by raises fails, or the callback
\* fails on the step it is invoked with
OpRaises(o, raises, callback) ==
    \/ o.op = "step" /\ o.name = raises
    \/ Invokes(o, callback) /\ callback.raises_at = o.step

\* the try block from statement i on, and the except clause; calls lists the
\* steps the callback was invoked with and ran the services that returned
RECURSIVE RunBody(_, _, _, _, _)
RunBody(body, i, results, raises, callback) ==
    IF i > Len(body) THEN results
    ELSE LET o == body[i]
             r == IF Invokes(o, callback)
                  THEN [results EXCEPT !.calls = Append(@, o.step)]
                  ELSE results
         IN  IF OpRaises(o, raises, callback)
             THEN [r EXCEPT !.error = IF o.op = "step" THEN o.name ELSE "callback",
                            !.analysis_complete = FALSE]
             ELSE RunBody(body, i + 1,
                    CASE o.op = "complete" -> [r EXCEPT !.analysis_complete = TRUE]
                      [] o.op \in {"step", "default"} ->
                           [r EXCEPT !.ran = @ \cup {o.name}]
                      [] OTHER -> r,
                    raises, callback)

process_photo(face_count, raises, callback) ==
    RunBody(PipelineBody(face_count), 1,
            [analysis_complete |-> FALSE, error |-> "None",
             calls |-> << >>, ran |-> {}],
            raises, callback)

\* no callback, a callback that returns, or one that fails on one step
Callbacks ==
    { [given |-> FALSE, raises_at |-> 0] }
      \cup { [given |-> TRUE, raises_at |-> k] : k \in 0..8 }

InitPipeline ==
    /\ InitDb
    /\ run = [w \in Workers |-> IdleRun]
    /\ resp = NoResp
    /\ sel = NoCall
    /\ \E face_count \in 0..MaxFacesPerPhoto :
         \E raises \in Range(PipelineSteps) \cup {"none"} :
           \E callback \in Callbacks :
             cf = [called |-> FALSE, face_count |-> face_count,
                   raises |-> raises, callback |-> callback]

CallProcessPhoto ==
    /\ ~cf.called
    /\ cf' = [cf EXCEPT !.called = TRUE] @@
               [result |-> process_photo(cf.face_count, cf.raises, cf.callback)]
    /\ UNCHANGED << dbvars, run, resp, sel >>

\* process_photos on the result: a photo whose analysis is not complete is
\* skipped, otherwise its faces (by position) are appended to the batch
CollectResult ==
    /\ cf.called
    /\ ~sel.called
    /\ sel' = [called |-> TRUE,
               all_faces_data |-> IF cf.result.analysis_complete
                                  THEN [i \in 1..cf.face_count |-> i]
                                  ELSE << >>]
    /\ UNCHANGED << dbvars, run, resp, cf >>

NextPipeline == CallProcessPhoto \/ CollectResult

SpecPipeline == InitPipeline /\ [][NextPipeline]_vars

(***************************************************************************)
(* C30  process_photo always returns a result                              *)
(***************************************************************************)
EveryStepRan == cf.result.ran = Range(PipelineSteps)

NoFaceCollectedOnFailure ==
    (sel.called /\ ~cf.result.analysis_complete) => sel.all_faces_data = << >>

\* C30: the result has analysis_complete True exactly when every step ran
\* without an exception; then error is None and a given callback was invoked
\* with the steps 1 to 8 in increasing order; otherwise error is set, and
\* process_photos adds none of the photo's faces to the batch.
C30_CompleteIffEveryStepRan ==
    cf.called =>
      /\ cf.result.analysis_complete <=> EveryStepRan
      /\ cf.result.analysis_complete =>
           /\ cf.result.error = "None"
           /\ cf.callback.given => cf.result.calls = << 1, 2, 3, 4, 5, 6, 7, 8 >>
      /\ ~EveryStepRan =>
           (~cf.result.analysis_complete /\ cf.result.error # "None")
      /\ NoFaceCollectedOnFailure

\* C30 (amended): analysis_complete is True exactly when every step and every
\* invocation of the progress callback ran without an exception; then error is
\* None and a given callback was invoked with the steps 1 to 8 in increasing
\* order, step 3 being left out when no face was detected; otherwise error is
\* set, and process_photos adds none of the photo's faces to the batch.
C30_CompleteIffNothingRaised ==
    cf.called =>
      LET clean == EveryStepRan /\ cf.callback.raises_at \notin Range(cf.result.calls)
      IN  /\ cf.result.analysis_complete <=> clean
          /\ cf.result.analysis_complete =>
               /\ cf.result.error = "None"
               /\ cf.callback.given =>
                    cf.result.calls = IF cf.face_count > 0
                                      THEN << 1, 2, 3, 4, 5, 6, 7, 8 >>
                                      ELSE << 1, 2, 4, 5, 6, 7, 8 >>
          /\ ~clean => (~cf.result.analysis_complete /\ cf.result.error # "None")
          /\ NoFaceCollectedOnFailure

\* a photo without faces analysed in full under a callback, its result taken
\* by process_photos
C30_Witness ==
    /\ sel.called
    /\ cf.face_count = 0
    /\ cf.callback.given
    /\ cf.result.analysis_complete
    /\ cf.result.calls = << 1, 2, 4, 5, 6, 7, 8 >>

====
